---- MODULE Spec2Model ----
(***************************************************************************)
(* GoCowrie (main.go): ingestion of a Cowrie JSON log, construction of the *)
(* per-address model, and the Summary / Detail / replay-modal navigation.  *)
(*                                                                         *)
(* Strings are TLA+ strings.  A decoded JSON value is a tagged record:     *)
(*   [t |-> "nil"]                 a missing key or JSON null              *)
(*   [t |-> "string", s |-> ...]   a JSON string                           *)
(*   [t |-> "number", n |-> ...]   a JSON number (small naturals only, for *)
(*                                 which fmt.Sprint prints the decimal)    *)
(* A CowrieEvent (map[string]interface{}) is a record over the keys the    *)
(* program reads; a key the map lacks reads as nil, as in Go.              *)
(***************************************************************************)
EXTENDS Integers, Sequences, FiniteSets, TLC

\* Number of lines of the input file (bound of the model).
MaxLines == 2

\* Number of lines of the input files of SpecRevisit (bound of the model).
MaxRevisitLines == 3

(***************************************************************************)
(* JSON values and the two ways main.go reads them.                        *)
(***************************************************************************)
Nil == [t |-> "nil"]
S(x) == [t |-> "string", s |-> x]
N(x) == [t |-> "number", n |-> x]

\* v, _ := x.(string): the string, or "" when x is not a string.
AsString(v) == IF v.t = "string" THEN v.s ELSE ""

\* fmt.Sprint(x) for the value kinds above.
Sprint(v) ==
  CASE v.t = "string" -> v.s
    [] v.t = "number" -> ToString(v.n)
    [] v.t = "nil" -> "<nil>"

(***************************************************************************)
(* Timestamps.  time.Parse(time.RFC3339Nano, ts) succeeds on the texts of  *)
(* TimeTable; inst is the instant on an order-preserving integer scale     *)
(* whose 0 is the zero time.Time (0001-01-01T00:00:00Z).  A parsed Time    *)
(* keeps the zone of its text, so Format gives the text back.              *)
(***************************************************************************)
TsEarly == "0000-12-31T23:59:59Z"
TsZero == "0001-01-01T00:00:00Z"
TsA == "2024-12-17T14:38:20.918891Z"
TsAPlus1 == "2024-12-17T15:38:20.918891+01:00"
TsB == "2024-12-18T09:00:00Z"
TsC == "2024-12-18T09:00:07Z"
TsD == "2024-12-18T09:01:00.5Z"
TsBad == "2024-12-17 14:38:20"

TimeTable ==
  { [text |-> TsEarly, inst |-> 0 - 1],
    [text |-> TsZero, inst |-> 0],
    [text |-> TsA, inst |-> 2],
    [text |-> TsAPlus1, inst |-> 2],
    [text |-> TsB, inst |-> 3],
    [text |-> TsC, inst |-> 4],
    [text |-> TsD, inst |-> 5] }

\* time.Time{}
ZeroTime == [text |-> TsZero, inst |-> 0]

parseTimestamp(ts) ==
  IF \E r \in TimeTable : r.text = ts
    THEN CHOOSE r \in TimeTable : r.text = ts
    ELSE ZeroTime

\* t1.Before(t2)
Before(t1, t2) == t1.inst < t2.inst

\* t.Format(time.RFC3339Nano)
Format(t) == t.text

(***************************************************************************)
(* Input lines.                                                            *)
(***************************************************************************)
Ev(src, ts, eid, msg) ==
  [src_ip |-> src, timestamp |-> ts, eventid |-> eid, message |-> msg,
   username |-> Nil, password |-> Nil, input |-> Nil]

\* The nil map json.Unmarshal leaves for the line "null", and the map of "{}".
NilEvent == Ev(Nil, Nil, Nil, Nil)

LoginSuccess == "cowrie.login.success"
LogClosed == "cowrie.log.closed"
IPa == "1.1.1.1"
IPb == "2.2.2.2"
IPc == "10.0.0.1"
UnknownIP == "UNKNOWN_IP"

\* Messages of cowrie.log.closed events, each with the timestamp of its event.
Messages ==
  { <<TsC, "Closing TTY Log: log/tty/ab after 12 seconds">>,
    <<TsD, "Closing TTY Log: log/tty/ab">>,
    <<TsC, "Closing TTY Log: log after after ">>,
    <<TsD, "Closing TTY Log: ">>,
    <<TsC, "Closing TTY Log">>,
    <<TsD, "x Closing TTY Log: log/tty/ab">> }

\* One event per form of src_ip.
AddressEvents ==
  { Ev(src, S(TsA), S("cowrie.session.connect"), S("New connection")) :
      src \in {Nil, S(""), N(7), S(UnknownIP), S(IPa), S(IPc)} }

\* Events of one address, one per form of timestamp.
TimestampEvents ==
  { Ev(S(IPa), ts, S("cowrie.session.params"), Nil) :
      ts \in {Nil, S(TsBad), S(TsEarly), S(TsZero), S(TsAPlus1), S(TsB)} }

\* Login events of two addresses, and an event without eventid.
KindEvents ==
  { [Ev(S(ip), S(TsB), S(eid), S("login attempt"))
       EXCEPT !.username = S("root"), !.password = S("")] :
      ip \in {IPa, IPb}, eid \in {LoginSuccess, "cowrie.login.failed"} }
  \cup
  { [Ev(S(IPb), N(7), Nil, S("CMD: ls")) EXCEPT !.input = S("ls")] }

\* Events carrying the messages above, one whose message is not a string
\* and one that is not a cowrie.log.closed event.
MessageEvents ==
  { Ev(S(IPa), S(m[1]), S(LogClosed), S(m[2])) : m \in Messages }
  \cup
  { Ev(S(IPb), S(TsB), S(LogClosed), N(7)),
    Ev(S(IPb), S(TsA), S("cowrie.session.closed"),
       S("Closing TTY Log: log/tty/cd after 3 seconds")) }

Events == AddressEvents \cup TimestampEvents \cup KindEvents \cup MessageEvents

\* The events of the files the navigation is explored on.
NavEvents ==
  MessageEvents
  \cup { e \in AddressEvents : e.src_ip = Nil }
  \cup { e \in TimestampEvents : e.timestamp = Nil }
  \cup { e \in KindEvents : e.eventid # S("cowrie.login.failed") /\ e.src_ip # S(IPb) }
  \cup { e \in KindEvents : e.eventid = Nil }

\* kind: "blank"     empty or whitespace-only line
\*       "malformed" not JSON
\*       "scalar"    JSON, but a number, string, boolean or array
\*       "null"      the JSON value null
\*       "object"    a JSON object, decoding to ev
Line(kind, ev) == [kind |-> kind, ev |-> ev]

Lines ==
  { Line(k, NilEvent) : k \in {"blank", "malformed", "scalar", "null"} }
  \cup { Line("object", e) : e \in Events }

NavLines == {Line("blank", NilEvent)} \cup { Line("object", e) : e \in NavEvents }

\* The lines of the longer files on which one address after another is
\* looked at: two events of one address, one of them with a replay message,
\* one of another address and one without address.
RevisitLines ==
  { Line("object", e) : e \in
      { Ev(S(IPa), S(TsC), S(LogClosed),
           S("Closing TTY Log: log/tty/ab after 12 seconds")),
        [Ev(S(IPa), S(TsB), S(LoginSuccess), S("login attempt"))
           EXCEPT !.username = S("root"), !.password = S("")],
        Ev(S(IPb), S(TsA), S("cowrie.session.closed"),
           S("Closing TTY Log: log/tty/cd after 3 seconds")),
        Ev(Nil, S(TsA), S("cowrie.session.connect"), S("New connection")) } }

(***************************************************************************)
(* Strings: the helpers of package strings that main.go uses, and the byte *)
(* order of Go's < on strings.                                             *)
(***************************************************************************)
HasPrefix(s, prefix) ==
  Len(s) >= Len(prefix) /\ SubSeq(s, 1, Len(prefix)) = prefix

TrimPrefix(s, prefix) ==
  IF HasPrefix(s, prefix) THEN SubSeq(s, Len(prefix) + 1, Len(s)) ELSE s

RECURSIVE LastIndexFrom(_, _, _)
LastIndexFrom(s, substr, i) ==
  IF i < 0 THEN 0 - 1
  ELSE IF SubSeq(s, i + 1, i + Len(substr)) = substr THEN i
  ELSE LastIndexFrom(s, substr, i - 1)

\* strings.LastIndex: 0-based index of the last occurrence, or -1.
LastIndex(s, substr) == LastIndexFrom(s, substr, Len(s) - Len(substr))

\* The bytes that occur in address keys, in ascending byte order.
ByteOrder == ".0123456789IKNOPUW_"

ByteRank(c) == CHOOSE i \in 1..Len(ByteOrder) : SubSeq(ByteOrder, i, i) = c

RECURSIVE StrLess(_, _)
StrLess(a, b) ==
  IF Len(b) = 0 THEN FALSE
  ELSE IF Len(a) = 0 THEN TRUE
  ELSE IF Head(a) = Head(b) THEN StrLess(Tail(a), Tail(b))
  ELSE ByteRank(Head(a)) < ByteRank(Head(b))

(***************************************************************************)
(* State.                                                                  *)
(***************************************************************************)
VARIABLES
  pc,          \* position of main: "read", "group", "ui", "stopped"
  lines,       \* the lines scanner.Scan has returned so far
  diagnostics, \* number of "Error parsing JSON" lines written to stderr
  eventsByIP,  \* map[string][]CowrieEvent
  visited,     \* keys the range over eventsByIP has already yielded
  ipInfos,     \* []IPInfo
  pages,       \* tview.Pages: the pages in the order added
  mainRow,     \* selected row of mainTable (row 0 is the header)
  detailRows,  \* rows 1.. of detailTable
  handed,      \* the last string passed to clipboard.WriteAll, "" if none
  clipboard    \* content of the system clipboard, "" at start

ui == <<pages, mainRow, detailRows, handed, clipboard>>

vars == <<pc, lines, diagnostics, eventsByIP, visited, ipInfos, ui>>

\* A page of tview.Pages; command is the string the modal's closure holds.
Page(name, visible, command) ==
  [name |-> name, visible |-> visible, command |-> command]

Init ==
  /\ pc = "read"
  /\ lines = <<>>
  /\ diagnostics = 0
  /\ eventsByIP = <<>>
  /\ visited = {}
  /\ ipInfos = <<>>
  /\ pages = <<Page("main", TRUE, ""), Page("detail", FALSE, "")>>
  /\ mainRow = 0
  /\ detailRows = <<>>
  /\ handed = ""
  /\ clipboard = ""

\* json.Unmarshal([]byte(line), &evt) with evt a nil CowrieEvent.
Unmarshal(line) ==
  CASE line.kind = "object" -> [err |-> FALSE, evt |-> line.ev]
    [] line.kind = "null" -> [err |-> FALSE, evt |-> NilEvent]
    [] OTHER -> [err |-> TRUE, evt |-> NilEvent]

\* KeyOf with the key printed by fmt.Sprint instead of the string assertion.
KeyOfSprint(evt) ==
  LET srcIP == Sprint(evt.src_ip)
  IN IF srcIP = "" THEN UnknownIP ELSE srcIP

\* The key of the group an event is appended to.
KeyOf(evt) ==
  LET srcIP == AsString(evt.src_ip)
  IN IF srcIP = "" THEN UnknownIP ELSE srcIP

\* AppendTo with the group overwritten instead of appended to.
AppendToOverwrite(m, k, evt) ==
  IF k \in DOMAIN m
    THEN [m EXCEPT ![k] = <<evt>>]
    ELSE m @@ (k :> <<evt>>)

\* eventsByIP[srcIP] = append(eventsByIP[srcIP], evt)
AppendTo(m, k, evt) ==
  IF k \in DOMAIN m
    THEN [m EXCEPT ![k] = Append(@, evt)]
    ELSE m @@ (k :> <<evt>>)

\* One iteration of the scanner loop.
ReadLine(line) ==
  /\ pc = "read"
  /\ lines' = Append(lines, line)
  /\ IF line.kind = "blank"
       THEN UNCHANGED <<diagnostics, eventsByIP>>
       ELSE LET r == Unmarshal(line)
            IN IF r.err
                 THEN /\ diagnostics' = diagnostics + 1
                      /\ UNCHANGED eventsByIP
                 ELSE /\ eventsByIP' = AppendTo(eventsByIP, KeyOf(r.evt), r.evt)
                      /\ UNCHANGED diagnostics
  /\ UNCHANGED <<pc, visited, ipInfos, ui>>

\* scanner.Scan returns false at the end of the file.
EndOfInput ==
  /\ pc = "read"
  /\ pc' = "group"
  /\ UNCHANGED <<lines, diagnostics, eventsByIP, visited, ipInfos, ui>>

(***************************************************************************)
(* Construction of ipInfos.                                                *)
(***************************************************************************)
\* Less with the comparison turned round.
LessLater(a, b) ==
  Before(parseTimestamp(Sprint(b.timestamp)), parseTimestamp(Sprint(a.timestamp)))

\* The less function given to sort.Slice for a group.
Less(a, b) ==
  Before(parseTimestamp(Sprint(a.timestamp)), parseTimestamp(Sprint(b.timestamp)))

Perms(n) ==
  { f \in [1..n -> 1..n] : \A i, j \in 1..n : i # j => f[i] # f[j] }

\* sort.Slice(evts, less): the slice is permuted so that no element is less
\* than an earlier one.  sort.Slice is not a stable sort ("equal elements may
\* be reversed from their original order"; the library's insertion sort
\* keeps input order only up to 12 elements), so every such permutation is a
\* possible outcome.
SortSlice(evts) ==
  { [i \in 1..Len(evts) |-> evts[f[i]]] : f \in
      { g \in Perms(Len(evts)) :
          \A i, j \in 1..Len(evts) : i < j => ~Less(evts[g[j]], evts[g[i]]) } }

\* HasLoginSuccess with the scan stopping before the last event.
HasLoginSuccessShort(evts) ==
  \E i \in 1..(Len(evts) - 1) : Sprint(evts[i].eventid) = LoginSuccess

\* The scan of a group for a login-success event.
HasLoginSuccess(evts) ==
  \E i \in 1..Len(evts) : Sprint(evts[i].eventid) = LoginSuccess

\* MakeIPInfo taking lastTime from the first event of the sorted group.
MakeIPInfoLastOfFirst(ip, evts) ==
  LET firstTime == IF Len(evts) > 0
                     THEN parseTimestamp(Sprint(evts[1].timestamp))
                     ELSE ZeroTime
  IN [IP |-> ip,
      FirstTimestamp |-> Format(firstTime),
      LastTimestamp |-> Format(firstTime),
      HasLoginSuccess |-> HasLoginSuccess(evts),
      Events |-> evts]

\* The IPInfo appended for the group ip once evts is sorted.
MakeIPInfo(ip, evts) ==
  LET firstTime == IF Len(evts) > 0
                     THEN parseTimestamp(Sprint(evts[1].timestamp))
                     ELSE ZeroTime
      lastTime == IF Len(evts) > 0
                    THEN parseTimestamp(Sprint(evts[Len(evts)].timestamp))
                    ELSE ZeroTime
  IN [IP |-> ip,
      FirstTimestamp |-> Format(firstTime),
      LastTimestamp |-> Format(lastTime),
      HasLoginSuccess |-> HasLoginSuccess(evts),
      Events |-> evts]

\* GroupStep appending no IPInfo for a group none of whose timestamps parses.
GroupStepSkipsUnparsed(ip) ==
  /\ pc = "group"
  /\ ip \in DOMAIN eventsByIP \ visited
  /\ \E evts \in SortSlice(eventsByIP[ip]) :
       /\ eventsByIP' = [eventsByIP EXCEPT ![ip] = evts]
       /\ ipInfos' =
            IF \A i \in 1..Len(evts) :
                 parseTimestamp(Sprint(evts[i].timestamp)) = ZeroTime
              THEN ipInfos
              ELSE Append(ipInfos, MakeIPInfo(ip, evts))
  /\ visited' = visited \cup {ip}
  /\ UNCHANGED <<pc, lines, diagnostics, ui>>

\* One iteration of "for ip, evts := range eventsByIP"; a Go map is ranged
\* over in an unspecified order.
GroupStep(ip) ==
  /\ pc = "group"
  /\ ip \in DOMAIN eventsByIP \ visited
  /\ \E evts \in SortSlice(eventsByIP[ip]) :
       /\ eventsByIP' = [eventsByIP EXCEPT ![ip] = evts]
       /\ ipInfos' = Append(ipInfos, MakeIPInfo(ip, evts))
  /\ visited' = visited \cup {ip}
  /\ UNCHANGED <<pc, lines, diagnostics, ui>>

RECURSIVE InsertByIP(_, _)
InsertByIP(sorted, info) ==
  IF sorted = <<>> THEN <<info>>
  ELSE IF StrLess(info.IP, Head(sorted).IP) THEN <<info>> \o sorted
  ELSE <<Head(sorted)>> \o InsertByIP(Tail(sorted), info)

\* SortByIP with the sort left out: the order of the range over the map.
SortByIPOmitted(infos) == infos

RECURSIVE SortByIP(_)
\* sort.Slice(ipInfos, IP ascending); the keys of a map are distinct, so the
\* outcome is unique.
SortByIP(infos) ==
  IF infos = <<>> THEN <<>>
  ELSE InsertByIP(SortByIP(SubSeq(infos, 1, Len(infos) - 1)), infos[Len(infos)])

\* The range is exhausted: ipInfos is sorted by IP and the application runs.
StartUI ==
  /\ pc = "group"
  /\ visited = DOMAIN eventsByIP
  /\ ipInfos' = SortByIP(ipInfos)
  /\ pc' = "ui"
  /\ UNCHANGED <<lines, diagnostics, eventsByIP, visited, ui>>

(***************************************************************************)
(* tview.Pages as main.go uses it: the page that has the focus is the last *)
(* visible page; the handlers of a table or modal run only while it has    *)
(* the focus.                                                              *)
(***************************************************************************)
RECURSIVE FocusOf(_)
FocusOf(ps) ==
  IF ps = <<>> THEN "none"
  ELSE IF ps[Len(ps)].visible THEN ps[Len(ps)].name
  ELSE FocusOf(SubSeq(ps, 1, Len(ps) - 1))

WithoutPage(ps, name) ==
  LET Keep(p) == p.name # name IN SelectSeq(ps, Keep)

\* pages.SwitchToPage(name)
SwitchToPage(ps, name) ==
  [i \in 1..Len(ps) |-> [ps[i] EXCEPT !.visible = (ps[i].name = name)]]

\* pages.AddPage("modal", modal, true, true)
AddPage(ps, page) == Append(WithoutPage(ps, page.name), page)

\* pages.RemovePage(name)
RemovePage(ps, name) == WithoutPage(ps, name)

(***************************************************************************)
(* Detail listing and replay command.                                      *)
(***************************************************************************)
RECURSIVE IndexFrom(_, _, _)
IndexFrom(s, substr, i) ==
  IF i + Len(substr) > Len(s) THEN 0 - 1
  ELSE IF SubSeq(s, i + 1, i + Len(substr)) = substr THEN i
  ELSE IndexFrom(s, substr, i + 1)

\* extractTTYLogCommand cutting at the first " after " (strings.Index).
extractAtFirstIndex(message) ==
  LET trimmed == TrimPrefix(message, "Closing TTY Log: ")
      idx == IndexFrom(trimmed, " after ", 0)
      cleaned == IF idx # 0 - 1 THEN SubSeq(trimmed, 1, idx) ELSE trimmed
  IN "/cowrie/cowrie-git/bin/playlog /cowrie/cowrie-git/" \o cleaned

TTYPrefix == "Closing TTY Log: "

extractTTYLogCommand(message) ==
  LET trimmed == TrimPrefix(message, TTYPrefix)
      idx == LastIndex(trimmed, " after ")
      cleaned == IF idx # 0 - 1 THEN SubSeq(trimmed, 1, idx) ELSE trimmed
  IN "/cowrie/cowrie-git/bin/playlog /cowrie/cowrie-git/" \o cleaned

\* The cells showDetail sets for one event.
DetailRow(evt) ==
  LET username == AsString(evt.username)
      password == AsString(evt.password)
  IN [timestamp |-> AsString(evt.timestamp),
      eventid |-> AsString(evt.eventid),
      userinfo |-> IF username # "" \/ password # ""
                     THEN username \o "/" \o password
                     ELSE "",
      input |-> AsString(evt.input),
      message |-> AsString(evt.message)]

\* showDetail without detailTable.Clear(): the rows of the listing shown
\* before that the new events do not overwrite stay.
showDetailNoClear(info) ==
  LET n == IF Len(detailRows) > Len(info.Events)
             THEN Len(detailRows) ELSE Len(info.Events)
  IN [i \in 1..n |-> IF i <= Len(info.Events)
                       THEN DetailRow(info.Events[i])
                       ELSE detailRows[i]]

\* showDetail(info): the old rows are removed, one row is set per event.
showDetail(info) == [i \in 1..Len(info.Events) |-> DetailRow(info.Events[i])]

(***************************************************************************)
(* Handlers.                                                               *)
(***************************************************************************)
\* Arrow keys on the Summary screen move the selection of mainTable.
MainSelect(row) ==
  /\ pc = "ui"
  /\ FocusOf(pages) = "main"
  /\ row \in 0..Len(ipInfos)
  /\ mainRow' = row
  /\ UNCHANGED <<pc, lines, diagnostics, eventsByIP, visited, ipInfos,
                 pages, detailRows, handed, clipboard>>

\* MainSelected putting the events of the summary it shows newest first,
\* in the summary itself.
MainSelectedReorders ==
  /\ pc = "ui"
  /\ FocusOf(pages) = "main"
  /\ IF mainRow > 0 /\ mainRow - 1 < Len(ipInfos)
       THEN LET evts == ipInfos[mainRow].Events
                reversed == [i \in 1..Len(evts) |-> evts[Len(evts) + 1 - i]]
            IN /\ ipInfos' = [ipInfos EXCEPT ![mainRow].Events = reversed]
               /\ detailRows' = showDetail(ipInfos'[mainRow])
               /\ pages' = SwitchToPage(pages, "detail")
       ELSE UNCHANGED <<ipInfos, detailRows, pages>>
  /\ UNCHANGED <<pc, lines, diagnostics, eventsByIP, visited,
                 mainRow, handed, clipboard>>

\* mainTable.SetSelectedFunc: Enter on the Summary screen.
MainSelected ==
  /\ pc = "ui"
  /\ FocusOf(pages) = "main"
  /\ IF mainRow > 0 /\ mainRow - 1 < Len(ipInfos)
       THEN /\ detailRows' = showDetail(ipInfos[mainRow])
            /\ pages' = SwitchToPage(pages, "detail")
       ELSE UNCHANGED <<detailRows, pages>>
  /\ UNCHANGED <<pc, lines, diagnostics, eventsByIP, visited, ipInfos,
                 mainRow, handed, clipboard>>

\* The keys on which a tview.Table calls its done function.
DoneKeys == {"Esc", "Tab"}

\* mainTable.SetDoneFunc
MainDone(key) ==
  /\ pc = "ui"
  /\ FocusOf(pages) = "main"
  /\ pc' = IF key = "Esc" THEN "stopped" ELSE pc
  /\ UNCHANGED <<lines, diagnostics, eventsByIP, visited, ipInfos, ui>>

\* DetailDone with the selection of mainTable reset on the way back.
DetailDoneResetRow(key) ==
  /\ pc = "ui"
  /\ FocusOf(pages) = "detail"
  /\ pages' = IF key = "Esc" THEN SwitchToPage(pages, "main") ELSE pages
  /\ mainRow' = IF key = "Esc" THEN 0 ELSE mainRow
  /\ UNCHANGED <<pc, lines, diagnostics, eventsByIP, visited, ipInfos,
                 detailRows, handed, clipboard>>

\* DetailDone stopping the application on Esc, as MainDone does.
DetailDoneStops(key) ==
  /\ pc = "ui"
  /\ FocusOf(pages) = "detail"
  /\ pc' = IF key = "Esc" THEN "stopped" ELSE pc
  /\ UNCHANGED <<lines, diagnostics, eventsByIP, visited, ipInfos, ui>>

\* detailTable.SetDoneFunc
DetailDone(key) ==
  /\ pc = "ui"
  /\ FocusOf(pages) = "detail"
  /\ pages' = IF key = "Esc" THEN SwitchToPage(pages, "main") ELSE pages
  /\ UNCHANGED <<pc, lines, diagnostics, eventsByIP, visited, ipInfos,
                 mainRow, detailRows, handed, clipboard>>

\* DetailSelected deciding on the event kind of the row, not on its message.
DetailSelectedByKind(row) ==
  /\ pc = "ui"
  /\ FocusOf(pages) = "detail"
  /\ row \in 0..Len(detailRows)
  /\ IF row > 0 /\ detailRows[row].eventid = LogClosed
       THEN pages' = AddPage(pages,
              Page("modal", TRUE, extractTTYLogCommand(detailRows[row].message)))
       ELSE UNCHANGED pages
  /\ UNCHANGED <<pc, lines, diagnostics, eventsByIP, visited, ipInfos,
                 mainRow, detailRows, handed, clipboard>>

\* detailTable.SetSelectedFunc: Enter on row `row` of the Detail screen.
DetailSelected(row) ==
  /\ pc = "ui"
  /\ FocusOf(pages) = "detail"
  /\ row \in 0..Len(detailRows)
  /\ IF row > 0 /\ HasPrefix(detailRows[row].message, TTYPrefix)
       THEN pages' = AddPage(pages,
              Page("modal", TRUE, extractTTYLogCommand(detailRows[row].message)))
       ELSE UNCHANGED pages
  /\ UNCHANGED <<pc, lines, diagnostics, eventsByIP, visited, ipInfos,
                 mainRow, detailRows, handed, clipboard>>

\* The labels the modal's done function is called with: its two buttons,
\* and "" when the modal is cancelled with Esc.
ModalLabels == {"Copy to Clipboard", "Close", ""}

\* ModalDone copying whichever button was pressed.
ModalDoneAlwaysCopies(buttonLabel, written) ==
  /\ pc = "ui"
  /\ FocusOf(pages) = "modal"
  /\ handed' = pages[Len(pages)].command
  /\ clipboard' = IF written THEN pages[Len(pages)].command ELSE clipboard
  /\ pages' = RemovePage(pages, "modal")
  /\ UNCHANGED <<pc, lines, diagnostics, eventsByIP, visited, ipInfos,
                 mainRow, detailRows>>

\* ModalDone hiding the modal page behind the detail page, not removing it.
ModalDoneHides(buttonLabel, written) ==
  /\ pc = "ui"
  /\ FocusOf(pages) = "modal"
  /\ LET command == pages[Len(pages)].command
     IN IF buttonLabel = "Copy to Clipboard"
          THEN /\ handed' = command
               /\ clipboard' = IF written THEN command ELSE clipboard
          ELSE UNCHANGED <<handed, clipboard>>
  /\ pages' = SwitchToPage(pages, "detail")
  /\ UNCHANGED <<pc, lines, diagnostics, eventsByIP, visited, ipInfos,
                 mainRow, detailRows>>

\* ModalDone treating the error of clipboard.WriteAll as fatal: the
\* application stops with the modal still open.
ModalDoneFailsLoudly(buttonLabel, written) ==
  /\ pc = "ui"
  /\ FocusOf(pages) = "modal"
  /\ LET command == pages[Len(pages)].command
     IN IF buttonLabel = "Copy to Clipboard"
          THEN /\ handed' = command
               /\ clipboard' = IF written THEN command ELSE clipboard
               /\ pc' = IF written THEN pc ELSE "stopped"
               /\ pages' = IF written THEN RemovePage(pages, "modal") ELSE pages
          ELSE /\ UNCHANGED <<pc, handed, clipboard>>
               /\ pages' = RemovePage(pages, "modal")
  /\ UNCHANGED <<lines, diagnostics, eventsByIP, visited, ipInfos,
                 mainRow, detailRows>>

\* The modal's SetDoneFunc; written tells whether clipboard.WriteAll, whose
\* error is dropped, has set the clipboard.
ModalDone(buttonLabel, written) ==
  /\ pc = "ui"
  /\ FocusOf(pages) = "modal"
  /\ LET command == pages[Len(pages)].command
     IN IF buttonLabel = "Copy to Clipboard"
          THEN /\ handed' = command
               /\ clipboard' = IF written THEN command ELSE clipboard
          ELSE UNCHANGED <<handed, clipboard>>
  /\ pages' = RemovePage(pages, "modal")
  /\ UNCHANGED <<pc, lines, diagnostics, eventsByIP, visited, ipInfos,
                 mainRow, detailRows>>

\* The whole program, on input files whose lines are drawn from NavLines.
Next ==
  \/ \E line \in NavLines : Len(lines) < MaxLines /\ ReadLine(line)
  \/ EndOfInput
  \/ \E ip \in DOMAIN eventsByIP : GroupStep(ip)
  \/ StartUI
  \/ \E row \in 0..MaxLines : MainSelect(row)
  \/ MainSelected
  \/ \E key \in DoneKeys : MainDone(key)
  \/ \E key \in DoneKeys : DetailDone(key)
  \/ \E row \in 0..MaxLines : DetailSelected(row)
  \/ \E label \in ModalLabels, written \in BOOLEAN : ModalDone(label, written)

Spec == Init /\ [][Next]_vars

\* The construction of the model alone, on input files whose lines are drawn
\* from Lines.
NextIngest ==
  \/ \E line \in Lines : Len(lines) < MaxLines /\ ReadLine(line)
  \/ EndOfInput
  \/ \E ip \in DOMAIN eventsByIP : GroupStep(ip)
  \/ StartUI

SpecIngest == Init /\ [][NextIngest]_vars

\* The whole program, on longer input files whose lines are drawn from
\* RevisitLines.
NextRevisit ==
  \/ \E line \in RevisitLines : Len(lines) < MaxRevisitLines /\ ReadLine(line)
  \/ EndOfInput
  \/ \E ip \in DOMAIN eventsByIP : GroupStep(ip)
  \/ StartUI
  \/ \E row \in 0..MaxRevisitLines : MainSelect(row)
  \/ MainSelected
  \/ \E key \in DoneKeys : MainDone(key)
  \/ \E key \in DoneKeys : DetailDone(key)
  \/ \E row \in 0..MaxRevisitLines : DetailSelected(row)
  \/ \E label \in ModalLabels, written \in BOOLEAN : ModalDone(label, written)

SpecRevisit == Init /\ [][NextRevisit]_vars

(***************************************************************************)
(* Properties.                                                             *)
(***************************************************************************)
Built == pc \in {"ui", "stopped"}

\* The events of the lines read so far that decoded without error, in file
\* order.
RECURSIVE DecodedOf(_)
DecodedOf(ls) ==
  IF ls = <<>> THEN <<>>
  ELSE LET l == ls[Len(ls)]
           before == DecodedOf(SubSeq(ls, 1, Len(ls) - 1))
       IN IF l.kind # "blank" /\ ~Unmarshal(l).err
            THEN Append(before, Unmarshal(l).evt)
            ELSE before

Decoded == DecodedOf(lines)

Range(evts) == {evts[i] : i \in 1..Len(evts)}

Count(e, evts) == Cardinality({i \in 1..Len(evts) : evts[i] = e})

\* Normalized timestamp of an event, as an instant.
Norm(e) == parseTimestamp(Sprint(e.timestamp)).inst

Parses(e) == \E r \in TimeTable : r.text = Sprint(e.timestamp)

\* The events of evts whose key is k and whose normalized instant is t.
TiedIn(evts, k, t) ==
  LET Keep(e) == KeyOf(e) = k /\ Norm(e) = t IN SelectSeq(evts, Keep)

Instants == {r.inst : r \in TimeTable}

\* C1: the groups hold exactly the decoded events, each once and in the
\* group of its own address key: for every event e and key k, the group k
\* holds e as often as the decoded input does when k is the key of e, and
\* never otherwise; once the model is built the summaries hold the same.
C1_Partition ==
  /\ \A k \in DOMAIN eventsByIP :
       \A e \in Range(eventsByIP[k]) \cup Range(Decoded) :
         Count(e, eventsByIP[k]) = IF KeyOf(e) = k THEN Count(e, Decoded) ELSE 0
  /\ \A e \in Range(Decoded) : KeyOf(e) \in DOMAIN eventsByIP
  /\ Built =>
       /\ \A i \in 1..Len(ipInfos) :
            /\ ipInfos[i].IP \in DOMAIN eventsByIP
            /\ ipInfos[i].Events = eventsByIP[ipInfos[i].IP]
            /\ \A j \in 1..Len(ipInfos) : ipInfos[j].IP = ipInfos[i].IP => j = i
       /\ \A k \in DOMAIN eventsByIP : \E i \in 1..Len(ipInfos) : ipInfos[i].IP = k

\* A built model with one group of two different events that the sort has
\* put in the other order than the file.
C1_Witness ==
  /\ pc = "ui"
  /\ Len(ipInfos) = 1
  /\ Len(Decoded) = 2
  /\ ipInfos[1].Events = <<Decoded[2], Decoded[1]>>
  /\ Decoded[1] # Decoded[2]

\* C2: in every group, the events of equal normalized timestamp are in the
\* order they have in the file (the sort is stable).
C2_Stable ==
  \A k \in visited : \A t \in Instants :
    TiedIn(eventsByIP[k], k, t) = TiedIn(Decoded, k, t)

\* C3 as claimed: every group is sorted non-decreasing by normalized
\* timestamp and an event whose timestamp does not parse comes before every
\* event whose timestamp parses.
C3_UnparsedFirst ==
  \A n \in 1..Len(ipInfos) :
    LET evts == ipInfos[n].Events
    IN \A i, j \in 1..Len(evts) :
         i < j => /\ Norm(evts[i]) <= Norm(evts[j])
                  /\ ~(Parses(evts[i]) /\ ~Parses(evts[j]))

\* C3: every group is sorted non-decreasing by normalized timestamp, an
\* event whose timestamp does not parse being normalized to the zero instant;
\* it comes before every event whose timestamp parses to a later instant
\* than the zero instant.
C3_Sorted ==
  \A n \in 1..Len(ipInfos) :
    LET evts == ipInfos[n].Events
    IN \A i, j \in 1..Len(evts) :
         /\ ~Parses(evts[i]) => Norm(evts[i]) = 0
         /\ i < j => /\ Norm(evts[i]) <= Norm(evts[j])
                     /\ ~(Parses(evts[i]) /\ Norm(evts[i]) > 0 /\ ~Parses(evts[j]))

\* A built group in which the sort moved an event without a parseable
\* timestamp in front of one with a parseable timestamp read before it.
C3_Witness ==
  /\ pc = "ui"
  /\ Len(ipInfos) = 1
  /\ Len(Decoded) = 2
  /\ ipInfos[1].Events = <<Decoded[2], Decoded[1]>>
  /\ ~Parses(Decoded[2])
  /\ Parses(Decoded[1])
  /\ Norm(Decoded[1]) > 0

SrcMissingOrEmpty(e) == e.src_ip = Nil \/ e.src_ip = S("")

\* C4 as claimed: the key of an event is "UNKNOWN" iff its src_ip is missing
\* or the empty string, and is the src_ip value otherwise.
C4_UnknownKey ==
  \A k \in DOMAIN eventsByIP : \A i \in 1..Len(eventsByIP[k]) :
    LET e == eventsByIP[k][i]
    IN /\ (k = "UNKNOWN") <=> SrcMissingOrEmpty(e)
       /\ ~SrcMissingOrEmpty(e) => S(k) = e.src_ip

\* C4: the key of an event is "UNKNOWN_IP" when its src_ip is missing, is
\* not a string or is the empty string; any other src_ip (a non-empty
\* string) is the key verbatim, so the key is "UNKNOWN_IP" iff the src_ip is
\* missing, not a string, empty, or the string "UNKNOWN_IP" itself.
C4_UnknownIPKey ==
  \A k \in DOMAIN eventsByIP : \A i \in 1..Len(eventsByIP[k]) :
    LET e == eventsByIP[k][i]
        text == e.src_ip.t = "string" /\ e.src_ip.s # ""
    IN /\ ~text => k = "UNKNOWN_IP"
       /\ text => k = e.src_ip.s
       /\ (k = "UNKNOWN_IP") <=> (~text \/ e.src_ip = S("UNKNOWN_IP"))

\* Sentinel group holding an event without src_ip and one whose src_ip is a
\* number, next to a group keyed by a verbatim address.
C4_Witness ==
  /\ "UNKNOWN_IP" \in DOMAIN eventsByIP
  /\ \E i \in 1..Len(eventsByIP["UNKNOWN_IP"]) :
       eventsByIP["UNKNOWN_IP"][i].src_ip.t = "number"
  /\ \E k \in DOMAIN eventsByIP : k # "UNKNOWN_IP"

NonObject(l) == l.kind \in {"malformed", "scalar", "null"}

ObjectEvents ==
  LET IsObject(l) == l.kind = "object"
      objs == SelectSeq(lines, IsObject)
  IN [i \in 1..Len(objs) |-> objs[i].ev]

\* C5: every non-blank line that is not a JSON object adds no event and
\* emits one diagnostic: the diagnostics count those lines, and the groups
\* hold exactly the events of the object lines, each in the group of its key.
C5_NonObjectSkipped ==
  /\ diagnostics = Cardinality({i \in 1..Len(lines) : NonObject(lines[i])})
  /\ \A k \in DOMAIN eventsByIP :
       /\ Len(eventsByIP[k]) > 0
       /\ \A e \in Range(eventsByIP[k]) \cup Range(ObjectEvents) :
            Count(e, eventsByIP[k]) =
              IF KeyOf(e) = k THEN Count(e, ObjectEvents) ELSE 0

\* The screen of the navigation: the primitive that has the focus.
Screen ==
  CASE FocusOf(pages) = "main" -> "Summary"
    [] FocusOf(pages) = "detail" -> "Detail"
    [] FocusOf(pages) = "modal" -> "ReplayModal"
    [] OTHER -> "none"

\* The command the open modal holds.
ModalCommand == pages[Len(pages)].command

\* C6: the highlighted Summary row is changed by no step that starts or ends
\* on Detail or ReplayModal (the confirm that leaves Summary, every event on
\* Detail and ReplayModal, the cancel that comes back), and cancel on Detail
\* comes back to Summary: the row highlighted at the confirm is the row
\* highlighted after the cancel.
C6_RowKept ==
  [][ pc = "ui" =>
        /\ (Screen # "Summary" \/ Screen' # "Summary") => mainRow' = mainRow
        /\ Screen = "Detail" =>
             /\ mainRow \in 1..Len(ipInfos)
             /\ ENABLED DetailDone("Esc")
             /\ ~ENABLED (DetailDone("Esc") /\ ~(Screen' = "Summary")) ]_vars

\* Back on Summary with row 2 highlighted, after the detail of row 2 was
\* shown and a replay command of it copied.
C6_Witness ==
  /\ pc = "ui"
  /\ Screen = "Summary"
  /\ mainRow = 2
  /\ Len(ipInfos) = 2
  /\ detailRows = showDetail(ipInfos[2])
  /\ detailRows # showDetail(ipInfos[1])
  /\ handed # ""

\* C7: on Detail, confirm on row j opens the modal holding the command built
\* from the message of row j iff that message starts with
\* "Closing TTY Log: "; on every other row, the header included, confirm
\* changes nothing.  The highlighted address and the detail rows stay as
\* they are in both cases.
C7_ConfirmOnDetail ==
  (pc = "ui" /\ Screen = "Detail") =>
    \A j \in 0..Len(detailRows) :
      /\ ENABLED DetailSelected(j)
      /\ IF j > 0 /\ HasPrefix(detailRows[j].message, "Closing TTY Log: ")
           THEN ~ENABLED (DetailSelected(j) /\
                   ~(/\ Screen' = "ReplayModal"
                     /\ ModalCommand' = extractTTYLogCommand(detailRows[j].message)
                     /\ UNCHANGED <<pc, mainRow, detailRows, ipInfos, handed,
                                    clipboard>>))
           ELSE ~ENABLED (DetailSelected(j) /\ ~(UNCHANGED vars))

\* The modal is open on a detail listing that has a row whose message does
\* not start with the prefix and a row whose message does.
C7_Witness ==
  /\ pc = "ui"
  /\ Screen = "ReplayModal"
  /\ \E j \in 1..Len(detailRows) :
       ~HasPrefix(detailRows[j].message, "Closing TTY Log: ")
  /\ \E j \in 1..Len(detailRows) :
       /\ HasPrefix(detailRows[j].message, "Closing TTY Log: ")
       /\ ModalCommand = extractTTYLogCommand(detailRows[j].message)

\* The path the replay command is to name: the text after the prefix, cut
\* at the last " after " when there is one.
PathOf(message) ==
  LET rest == SubSeq(message, Len("Closing TTY Log: ") + 1, Len(message))
      occurrences == { i \in 0..(Len(rest) - Len(" after ")) :
                         SubSeq(rest, i + 1, i + Len(" after ")) = " after " }
  IN IF occurrences = {}
       THEN rest
       ELSE SubSeq(rest, 1, CHOOSE i \in occurrences :
                               \A k \in occurrences : k <= i)

\* C8: for a message that starts with "Closing TTY Log: " the command of the
\* modal is "/cowrie/cowrie-git/bin/playlog /cowrie/cowrie-git/" followed by
\* the text after the prefix cut at the last " after " (uncut when there is
\* none); for any other message no command is produced.
C8_ReplayBuilder ==
  (pc = "ui" /\ Screen = "Detail") =>
    \A j \in 1..Len(detailRows) :
      LET message == detailRows[j].message
      IN IF Len(message) >= Len("Closing TTY Log: ")
              /\ SubSeq(message, 1, Len("Closing TTY Log: ")) = "Closing TTY Log: "
           THEN /\ ENABLED DetailSelected(j)
                /\ ~ENABLED (DetailSelected(j) /\
                      ModalCommand' #
                        "/cowrie/cowrie-git/bin/playlog /cowrie/cowrie-git/"
                          \o PathOf(message))
           ELSE ~ENABLED (DetailSelected(j) /\ pages' # pages)

\* The modal holds the command of a message with two overlapping " after ".
C8_Witness ==
  /\ pc = "ui"
  /\ Screen = "ReplayModal"
  /\ ModalCommand = "/cowrie/cowrie-git/bin/playlog /cowrie/cowrie-git/log after"

\* C9: from ReplayModal, copy hands the command of the modal to the
\* clipboard and returns to Detail; close and cancel return to Detail and
\* leave the clipboard alone.  While the modal is open and after it is
\* closed the highlighted address and the detail rows are those of before.
C9_ModalCopyClose ==
  (pc = "ui" /\ Screen = "ReplayModal") =>
    /\ mainRow \in 1..Len(ipInfos)
    /\ detailRows = showDetail(ipInfos[mainRow])
    /\ \A written \in BOOLEAN :
         /\ ENABLED ModalDone("Copy to Clipboard", written)
         /\ ~ENABLED (ModalDone("Copy to Clipboard", written) /\
               ~(/\ handed' = ModalCommand
                 /\ clipboard' \in {ModalCommand, clipboard}
                 /\ Screen' = "Detail"
                 /\ UNCHANGED <<pc, mainRow, detailRows, ipInfos>>))
         /\ \A label \in {"Close", ""} :
              /\ ENABLED ModalDone(label, written)
              /\ ~ENABLED (ModalDone(label, written) /\
                    ~(/\ UNCHANGED <<handed, clipboard>>
                      /\ Screen' = "Detail"
                      /\ UNCHANGED <<pc, mainRow, detailRows, ipInfos>>))

\* A second modal is open after the command of a first one was copied.
C9_Witness ==
  /\ pc = "ui"
  /\ Screen = "ReplayModal"
  /\ handed # ""
  /\ clipboard = handed
  /\ ModalCommand # handed

\* C10: the login-success flag of a group is true iff a decoded event of
\* that address has the eventid "cowrie.login.success", a string.
C10_LoginFlag ==
  \A n \in 1..Len(ipInfos) :
    ipInfos[n].HasLoginSuccess <=>
      \E i \in 1..Len(Decoded) :
        /\ KeyOf(Decoded[i]) = ipInfos[n].IP
        /\ Decoded[i].eventid = S("cowrie.login.success")

\* Two groups: the second has a login success, the first a failed login.
C10_Witness ==
  /\ pc = "ui"
  /\ Len(ipInfos) = 2
  /\ ~ipInfos[1].HasLoginSuccess
  /\ ipInfos[2].HasLoginSuccess
  /\ ipInfos[1].Events[1].eventid = S("cowrie.login.failed")

\* a is before b in the lexicographic order of their bytes: they agree on
\* their first k bytes, and then a ends while b goes on, or a has the
\* smaller byte.
LexBefore(a, b) ==
  \E k \in 0..Len(a) :
    /\ k <= Len(b)
    /\ SubSeq(a, 1, k) = SubSeq(b, 1, k)
    /\ \/ k = Len(a) /\ k < Len(b)
       \/ /\ k < Len(a)
          /\ k < Len(b)
          /\ ByteRank(SubSeq(a, k + 1, k + 1)) < ByteRank(SubSeq(b, k + 1, k + 1))

\* C11: the summaries of the built model are in strictly ascending
\* lexicographic order of their address, one per key; the place of each
\* address is the number of keys before it, whatever order the groups were
\* visited in.
C11_AddressOrder ==
  Built =>
    /\ Len(ipInfos) = Cardinality(DOMAIN eventsByIP)
    /\ \A i, j \in 1..Len(ipInfos) :
         i < j => LexBefore(ipInfos[i].IP, ipInfos[j].IP)
    /\ \A i \in 1..Len(ipInfos) :
         /\ ipInfos[i].IP \in DOMAIN eventsByIP
         /\ Cardinality({k \in DOMAIN eventsByIP : LexBefore(k, ipInfos[i].IP)}) = i - 1

\* A built model of two addresses that agree on their first byte, the later
\* one read first.
C11_Witness ==
  /\ pc = "ui"
  /\ Len(ipInfos) = 2
  /\ ipInfos[1].IP = "1.1.1.1"
  /\ ipInfos[2].IP = "10.0.0.1"
  /\ KeyOf(Decoded[1]) = "10.0.0.1"

Modals == {i \in 1..Len(pages) : pages[i].name = "modal"}

\* C13: in every reachable state at most one replay modal exists, and one
\* exists exactly when the screen is ReplayModal; while it exists no confirm,
\* cancel or selection reaches the Detail or the Summary screen, so no second
\* modal is opened on top of the first.
C13_OneModal ==
  /\ Cardinality(Modals) <= 1
  /\ (Modals # {}) <=> (Screen = "ReplayModal")
  /\ Modals # {} =>
       /\ \A j \in 0..Len(detailRows) : ~ENABLED DetailSelected(j)
       /\ \A key \in DoneKeys : ~ENABLED DetailDone(key)
       /\ ~ENABLED MainSelected

\* A modal is open again on the row whose command was copied from an
\* earlier modal, which has been removed.
C13_Witness ==
  /\ pc = "ui"
  /\ Modals = {3}
  /\ handed = ModalCommand
  /\ \E j \in 1..Len(detailRows) : HasPrefix(detailRows[j].message, TTYPrefix)

\* The rows a detail listing of the events evts has: row k shows event k.
RowsOf(evts) == [k \in 1..Len(evts) |-> DetailRow(evts[k])]

\* C14: confirm on data row i of Summary leads to Detail with the i-th
\* summary selected and its events listed; whenever the screen is Detail or
\* ReplayModal the detail rows are the events of the summary confirmed last,
\* one row per event in the order of the group, and nothing else.
C14_DetailOfConfirmed ==
  /\ (pc = "ui" /\ Screen = "Summary" /\ mainRow \in 1..Len(ipInfos)) =>
       /\ ENABLED MainSelected
       /\ ~ENABLED (MainSelected /\
             ~(/\ Screen' = "Detail"
               /\ mainRow' = mainRow
               /\ detailRows' = RowsOf(ipInfos[mainRow].Events)))
  /\ (pc = "ui" /\ Screen \in {"Detail", "ReplayModal"}) =>
       /\ mainRow \in 1..Len(ipInfos)
       /\ Len(detailRows) = Len(ipInfos[mainRow].Events)
       /\ \A k \in 1..Len(detailRows) :
            detailRows[k] = DetailRow(ipInfos[mainRow].Events[k])

\* The one event of the second address is listed after the two events of
\* the first address were, from which a replay command was copied.
C14_Witness ==
  /\ pc = "ui"
  /\ Screen = "Detail"
  /\ Len(ipInfos) = 2
  /\ Len(ipInfos[1].Events) = 2
  /\ mainRow = 2
  /\ Len(detailRows) = 1
  /\ handed = "/cowrie/cowrie-git/bin/playlog /cowrie/cowrie-git/log/tty/ab"

\* C15: on Detail, confirm on the row of every event whose eventid is
\* "cowrie.log.closed" opens the replay modal.
C15_LogClosedOpensModal ==
  (pc = "ui" /\ Screen = "Detail" /\ mainRow \in 1..Len(ipInfos)) =>
    \A j \in 1..Len(ipInfos[mainRow].Events) :
      ipInfos[mainRow].Events[j].eventid = S(LogClosed) =>
        /\ ENABLED DetailSelected(j)
        /\ ~ENABLED (DetailSelected(j) /\ Screen' # "ReplayModal")

\* The address keys of the decoded events.
DecodedKeys == {KeyOf(Decoded[i]) : i \in 1..Len(Decoded)}

\* C16: once the model is built, every address key of a decoded event has
\* exactly one summary and there is no other summary; a summary none of
\* whose events has a timestamp that parses has first-seen and last-seen
\* equal to the zero instant, "0001-01-01T00:00:00Z".
C16_NoGroupDropped ==
  Built =>
    /\ \A k \in DecodedKeys :
         Cardinality({n \in 1..Len(ipInfos) : ipInfos[n].IP = k}) = 1
    /\ Len(ipInfos) = Cardinality(DecodedKeys)
    /\ \A n \in 1..Len(ipInfos) :
         (\A i \in 1..Len(Decoded) :
            KeyOf(Decoded[i]) = ipInfos[n].IP => ~Parses(Decoded[i]))
           => /\ ipInfos[n].FirstTimestamp = "0001-01-01T00:00:00Z"
              /\ ipInfos[n].LastTimestamp = "0001-01-01T00:00:00Z"

\* A group of two events, one without timestamp and one whose timestamp
\* does not parse, has its summary, next to no other.
C16_Witness ==
  /\ pc = "ui"
  /\ Len(ipInfos) = 1
  /\ Len(ipInfos[1].Events) = 2
  /\ \E i, j \in 1..2 :
       /\ ipInfos[1].Events[i].timestamp = Nil
       /\ ipInfos[1].Events[j].timestamp = S(TsBad)
  /\ ipInfos[1].FirstTimestamp = TsZero

\* C17: once the model is built no step changes it: the sequence of
\* summaries, with the address, first-seen, last-seen, login flag and event
\* list of each, and the groups the summaries were made from stay as they
\* are, whatever the screen and the event.
C17_ModelFrozen ==
  [][ Built =>
        /\ ipInfos' = ipInfos
        /\ eventsByIP' = eventsByIP
        /\ \A n \in 1..Len(ipInfos) :
             /\ ipInfos'[n].IP = ipInfos[n].IP
             /\ ipInfos'[n].FirstTimestamp = ipInfos[n].FirstTimestamp
             /\ ipInfos'[n].LastTimestamp = ipInfos[n].LastTimestamp
             /\ ipInfos'[n].HasLoginSuccess = ipInfos[n].HasLoginSuccess
             /\ ipInfos'[n].Events = ipInfos[n].Events ]_vars

\* The program has stopped after the two-event group of the second of two
\* summaries was listed and a copy from its modal failed to reach the
\* clipboard.
C17_Witness ==
  /\ pc = "stopped"
  /\ mainRow = 2
  /\ Len(ipInfos) = 2
  /\ Len(ipInfos[2].Events) = 2
  /\ detailRows = RowsOf(ipInfos[2].Events)
  /\ handed # ""
  /\ clipboard = ""

\* What the copy action does to the navigation, whatever the clipboard
\* does: the modal page is gone, the screen is Detail, the program runs on,
\* and the selected address, the detail rows and the diagnostics are those
\* of before.
CopyReturnsToDetail ==
  /\ pages' = RemovePage(pages, "modal")
  /\ Screen' = "Detail"
  /\ pc' = "ui"
  /\ UNCHANGED <<mainRow, detailRows, diagnostics, ipInfos>>

\* C18: a clipboard write that fails during copy changes nothing in the
\* navigation: the copy action closes the modal and returns to Detail with
\* the same selected address and detail rows as a copy whose write succeeds,
\* the program does not stop and reports nothing; the failed write leaves
\* the clipboard as it was.
C18_CopyFailureSwallowed ==
  (pc = "ui" /\ Screen = "ReplayModal") =>
    /\ ENABLED ModalDone("Copy to Clipboard", FALSE)
    /\ ENABLED ModalDone("Copy to Clipboard", TRUE)
    /\ ~ENABLED (ModalDone("Copy to Clipboard", FALSE) /\
          ~(CopyReturnsToDetail /\ clipboard' = clipboard))
    /\ ~ENABLED (ModalDone("Copy to Clipboard", TRUE) /\
          ~(CopyReturnsToDetail /\ clipboard' = ModalCommand))

\* Back on Detail after a copy whose write failed: the command handed over
\* last is not what the clipboard holds.
C18_Witness ==
  /\ pc = "ui"
  /\ Screen = "Detail"
  /\ handed # ""
  /\ clipboard # handed
  /\ mainRow \in 1..Len(ipInfos)
  /\ detailRows = RowsOf(ipInfos[mainRow].Events)

\* The instant a first-seen or last-seen text of a summary stands for.
InstantOf(text) == parseTimestamp(text).inst

\* The normalized instants of the decoded events whose address key is k.
GroupInstants(k) ==
  {Norm(Decoded[i]) : i \in {j \in 1..Len(Decoded) : KeyOf(Decoded[j]) = k}}

\* C19: for every summary, first-seen is the normalized timestamp of the
\* first event of its sorted list and last-seen that of the last; first-seen
\* is the least and last-seen the greatest normalized timestamp of the
\* decoded events of the address, and first-seen is not later than
\* last-seen.
C19_FirstLast ==
  \A n \in 1..Len(ipInfos) :
    LET info == ipInfos[n]
        first == InstantOf(info.FirstTimestamp)
        last == InstantOf(info.LastTimestamp)
    IN /\ Len(info.Events) > 0
       /\ first = Norm(info.Events[1])
       /\ last = Norm(info.Events[Len(info.Events)])
       /\ first \in GroupInstants(info.IP)
       /\ last \in GroupInstants(info.IP)
       /\ \A t \in GroupInstants(info.IP) : first <= t /\ t <= last
       /\ first <= last

\* A group read latest event first, one of its timestamps with a zone
\* offset: first-seen and last-seen are the two in the order of time.
C19_Witness ==
  /\ pc = "ui"
  /\ Len(ipInfos) = 1
  /\ Len(Decoded) = 2
  /\ Decoded[1].timestamp = S(TsB)
  /\ Decoded[2].timestamp = S(TsAPlus1)
  /\ ipInfos[1].FirstTimestamp = TsAPlus1
  /\ ipInfos[1].LastTimestamp = TsB
====
